---------------------------- MODULE Spec2Model ----------------------------
(***************************************************************************)
(* Model of the weather-alarm engine of src/weather_alarm_base.py          *)
(* (class WeatherAlarmBase) as hosted by AppDaemon: the host calls         *)
(* initialize() once, and afterwards invokes the registered callbacks      *)
(* check_weather_forecast and _cleanup_old_data one at a time.             *)
(*                                                                         *)
(* Conventions                                                             *)
(*   - Python names are kept without their leading underscore.             *)
(*   - Times are seconds (integers); datetime.now() is the variable clock, *)
(*     which never runs backwards and does not advance inside a callback.  *)
(*   - Numbers of the configuration and of the forecast are integers; the  *)
(*     comparisons of the source are the same on floats.                   *)
(*   - A Python value of unknown type is a record [k, n, s]: k is its      *)
(*     type ("absent" for a missing dict key, "none" for None).            *)
(*   - An optional time is a set: {} for None / missing key, {t} else.     *)
(***************************************************************************)
EXTENDS Integers, Sequences, FiniteSets, TLC

(***************************************************************************)
(* Program constants (class attributes of WeatherAlarmBase).               *)
(***************************************************************************)
DEFAULT_COOLDOWN == 86400
MIN_NOTIFICATION_INTERVAL == 60
MAX_WEATHER_VALUE == 1000
MIN_WEATHER_VALUE == -100
CLEANUP_MAX_AGE_SECONDS == 604800
DEFAULT_LIMIT_GT == 0

(***************************************************************************)
(* Bounds of the model.                                                    *)
(***************************************************************************)
MaxRecords == 2

(***************************************************************************)
(* Python values.                                                          *)
(***************************************************************************)
Absent == [k |-> "absent", n |-> 0, s |-> ""]
None == [k |-> "none", n |-> 0, s |-> ""]
Inf == [k |-> "inf", n |-> 0, s |-> ""]
Num(n) == [k |-> "num", n |-> n, s |-> ""]
Str(s) == [k |-> "str", n |-> 0, s |-> s]
\* a string that float() accepts, with the number it yields
NumStr(n, s) == [k |-> "numstr", n |-> n, s |-> s]

\* dict.get(key, default)
Get(v, default) == IF v.k = "absent" THEN default ELSE v

\* isinstance(v, (int, float))
IsNumber(v) == v.k \in {"num", "inf"}

\* Python truthiness of a scalar value
Truthy(v) ==
    CASE v.k = "num" -> v.n # 0
      [] v.k = "str" -> v.s # ""
      [] v.k = "inf" -> TRUE
      [] OTHER -> FALSE

\* a >= b on numbers, float('inf') included
NumGeq(a, b) ==
    CASE b.k = "inf" -> a.k = "inf"
      [] a.k = "inf" -> TRUE
      [] OTHER -> a.n >= b.n

(***************************************************************************)
(* A time_of_day value: the string txt with what txt.split(':') and int()  *)
(* make of it (parts[i].isint: int() succeeds on part i, with value v),    *)
(* or a value that is no string.                                           *)
(***************************************************************************)
Part(v) == [isint |-> TRUE, v |-> v]
NoInt == [isint |-> FALSE, v |-> 0]
Tod(txt, parts) == [k |-> "str", txt |-> txt, parts |-> parts]
TodAbsent == [k |-> "absent", txt |-> "", parts |-> <<>>]
TodNone == [k |-> "none", txt |-> "", parts |-> <<>>]
TodNumber == [k |-> "num", txt |-> "", parts |-> <<>>]
DEFAULT_TIME_OF_DAY == Tod("18:15", <<Part(18), Part(15)>>)

\* _validate_time_format
validate_time_format(t) ==
    /\ t.k = "str"
    /\ Len(t.parts) = 2
    /\ t.parts[1].isint /\ t.parts[2].isint
    /\ 0 <= t.parts[1].v /\ t.parts[1].v <= 23
    /\ 0 <= t.parts[2].v /\ t.parts[2].v <= 59

(***************************************************************************)
(* Raw configuration (self.args).                                          *)
(***************************************************************************)
Flag(b) == [k |-> "bool", b |-> b]
FlagAbsent == [k |-> "absent", b |-> TRUE]

\* one entry of recipients: a dict with the keys that are not Absent
Recipient(target, name, startup, tod) ==
    [k |-> "dict", notification_target |-> target, name |-> name,
     startup_message |-> startup, time_of_day |-> tod]
EmptyDict == Recipient(Absent, Absent, FlagAbsent, TodAbsent)
BareString ==
    [k |-> "str", notification_target |-> Absent, name |-> Absent,
     startup_message |-> FlagAbsent, time_of_day |-> TodAbsent]

\* one entry of limits
Limit(gt, lt, message, cooldown) ==
    [k |-> "dict", gt |-> gt, lt |-> lt, message |-> message,
     msg_cooldown |-> cooldown]
NotADictLimit ==
    [k |-> "str", gt |-> Absent, lt |-> Absent, message |-> Absent,
     msg_cooldown |-> Absent]

\* a container: k = "list" with its items, a bare dict (k = "dict", the
\* dict being items[1]), a number n, or an absent / None value
List(items) == [k |-> "list", n |-> 0, items |-> items]
BareDict(d) == [k |-> "dict", n |-> 0, items |-> <<d>>]
Scalar(n) == [k |-> "num", n |-> n, items |-> <<>>]
NoList == [k |-> "absent", n |-> 0, items |-> <<>>]

Args(device, recipients, limits) ==
    [device_id |-> device, recipients |-> recipients, limits |-> limits]

\* `not x` for a container
Falsy(c) ==
    CASE c.k = "list" -> c.items = <<>>
      [] c.k = "dict" -> c.items[1] = EmptyDict
      [] c.k = "num" -> c.n = 0
      [] OTHER -> TRUE

(***************************************************************************)
(* _validate_config.  Every failed check returns False; the loop header    *)
(* `for i, limit in enumerate(self.limits)` is outside the try block, so a *)
(* truthy limits value that cannot be iterated raises TypeError.           *)
(***************************************************************************)
\* self.recipients after `if not isinstance(list): self.recipients = [..]`
RecipientItems(c) == IF c.k \in {"list", "dict"} THEN c.items ELSE <<BareString>>

\* recipient.get('notification_target') or recipient.get('name')
NotificationTarget(r) ==
    IF Truthy(r.notification_target) THEN r.notification_target ELSE r.name

\* body of the loop over recipients: TRUE when no check returns False
recipient_ok(r) ==
    /\ r.k = "dict"
    /\ r # EmptyDict
    /\ Truthy(NotificationTarget(r))
    /\ validate_time_format(IF r.time_of_day.k = "absent"
                            THEN DEFAULT_TIME_OF_DAY ELSE r.time_of_day)

\* body of the loop over limits: TRUE when no check returns False
limit_ok(l) ==
    /\ l.k = "dict"
    /\ IsNumber(Get(l.gt, Num(DEFAULT_LIMIT_GT)))
    /\ IsNumber(Get(l.lt, Inf))
    /\ ~NumGeq(Get(l.gt, Num(DEFAULT_LIMIT_GT)), Get(l.lt, Inf))
    /\ LET cooldown == Get(l.msg_cooldown, None)
       IN  cooldown.k = "none" \/ (IsNumber(cooldown) /\ ~(cooldown.n < 0))

\* "True", "False", or "TypeError" when the call raises
validate_config(a) ==
    CASE Get(a.device_id, None).k = "none" -> "False"
      [] OTHER ->
    CASE Falsy(a.recipients) -> "False"
      [] OTHER ->
    CASE \E i \in 1..Len(RecipientItems(a.recipients)) :
             ~recipient_ok(RecipientItems(a.recipients)[i]) -> "False"
      [] OTHER ->
    CASE Falsy(a.limits) -> "False"
      [] OTHER ->
    CASE a.limits.k = "num" -> "TypeError"
      [] OTHER ->
    CASE a.limits.k # "list" -> "False"
      [] OTHER ->
    CASE \E i \in 1..Len(a.limits.items) : ~limit_ok(a.limits.items[i]) -> "False"
      [] OTHER -> "True"

\* self.processed_recipients of a configuration that passed validation
ProcessedRecipients(a) ==
    [i \in 1..Len(RecipientItems(a.recipients)) |->
        LET r == RecipientItems(a.recipients)[i]
        IN  [name |-> NotificationTarget(r).s,
             startup_message |-> r.startup_message.b,
             time_of_day |-> IF r.time_of_day.k = "absent"
                             THEN DEFAULT_TIME_OF_DAY ELSE r.time_of_day]]

(***************************************************************************)
(* The configurations the model starts from: two valid ones, and the       *)
(* first one with a single field changed.                                  *)
(***************************************************************************)
RecA == Recipient(Str("A"), Absent, FlagAbsent, TodAbsent)
RecB == Recipient(Absent, Str("B"), Flag(FALSE), Tod("08:05", <<Part(8), Part(5)>>))
Low == Limit(Num(0), Num(10), Str("low"), Num(3600))
High == Limit(Num(10), Num(20), Str("high"), Num(3600))
Device == Str("weather.home")

\* bands low = [0,10) and high = [10,20), both with cooldown 3600
ConfigScenario == Args(Device, List(<<RecA, RecB>>), List(<<Low, High>>))

\* a bare recipient dict, overlapping bands, defaults for lt and cooldown
ConfigOverlap ==
    Args(Device,
         BareDict(Recipient(Absent, Str("A"), FlagAbsent, Tod("8:05", <<Part(8), Part(5)>>))),
         List(<<Limit(Num(0), Num(10), Str("low"), Num(0)),
                Limit(Num(5), Absent, Str("high"), Absent)>>))

\* bands that reach beyond the sane range of values on both sides
ConfigExtremes ==
    Args(Device, List(<<RecA>>),
         List(<<Limit(Num(-200), Num(0), Str("low"), Num(0)),
                Limit(Num(5), Absent, Str("high"), Num(0))>>))

\* two recipients with the same time_of_day string, and with two spellings
\* of one time
ConfigSharedTime ==
    Args(Device,
         List(<<Recipient(Str("A"), Absent, FlagAbsent, Tod("08:05", <<Part(8), Part(5)>>)),
                Recipient(Absent, Str("B"), Flag(TRUE), Tod("08:05", <<Part(8), Part(5)>>))>>),
         List(<<Low, High>>))
ConfigSpellings ==
    Args(Device,
         List(<<Recipient(Str("A"), Absent, FlagAbsent, Tod("8:05", <<Part(8), Part(5)>>)),
                RecB>>),
         List(<<Low, High>>))
ScheduleConfigs == {ConfigSharedTime, ConfigSpellings}

\* two bands with the same message text and different cooldowns, and a
\* band with no message text
ConfigSameMessage ==
    Args(Device, List(<<RecA>>),
         List(<<Limit(Num(0), Num(10), Str("low"), Absent),
                Limit(Num(10), Num(20), Str("low"), Num(3600)),
                Limit(Num(20), Num(30), Absent, Num(3600))>>))

ValidConfigs ==
    {ConfigScenario, ConfigOverlap, ConfigExtremes, ConfigSameMessage}
    \cup ScheduleConfigs

WithRecipient(r) == Args(Device, List(<<RecA, r>>), List(<<Low, High>>))
WithTime(t) == WithRecipient(Recipient(Absent, Str("B"), Flag(FALSE), t))
WithLimit(l) == Args(Device, List(<<RecA, RecB>>), List(<<Low, l>>))

BadTimes ==
    { Tod("25:00", <<Part(25), Part(0)>>), Tod("24:00", <<Part(24), Part(0)>>),
      Tod("12:60", <<Part(12), Part(60)>>), Tod("-1:30", <<Part(-1), Part(30)>>),
      Tod("noon", <<NoInt>>), Tod("ab:cd", <<NoInt, NoInt>>),
      Tod("12:3x", <<Part(12), NoInt>>), Tod("1:2:3", <<Part(1), Part(2), Part(3)>>),
      TodNumber, TodNone }

BadRecipients ==
    { BareString, EmptyDict,
      Recipient(Absent, Absent, Flag(TRUE), DEFAULT_TIME_OF_DAY),
      Recipient(Str(""), Absent, FlagAbsent, TodAbsent),
      Recipient(None, Str(""), FlagAbsent, TodAbsent) }

BadLimits ==
    { NotADictLimit,
      Limit(Num(10), Num(10), Str("high"), Num(3600)),
      Limit(Num(20), Num(10), Str("high"), Num(3600)),
      Limit(Inf, Absent, Str("high"), Num(3600)),
      Limit(Str("10"), Num(20), Str("high"), Num(3600)),
      Limit(Num(10), None, Str("high"), Num(3600)),
      Limit(Num(10), Num(20), Str("high"), Str("1h")),
      Limit(Num(10), Num(20), Str("high"), Num(-1)) }

InvalidConfigs ==
    { Args(Absent, List(<<RecA, RecB>>), List(<<Low, High>>)),
      Args(None, List(<<RecA, RecB>>), List(<<Low, High>>)),
      Args(Device, NoList, List(<<Low, High>>)),
      Args(Device, List(<<>>), List(<<Low, High>>)),
      Args(Device, BareDict(EmptyDict), List(<<Low, High>>)),
      Args(Device, Scalar(5), List(<<Low, High>>)),
      Args(Device, List(<<RecA, RecB>>), NoList),
      Args(Device, List(<<RecA, RecB>>), List(<<>>)),
      Args(Device, List(<<RecA, RecB>>), Scalar(0)),
      Args(Device, List(<<RecA, RecB>>), Scalar(5)),
      Args(Device, List(<<RecA, RecB>>), BareDict(Low)) }
      \cup { WithRecipient(r) : r \in BadRecipients }
      \cup { WithTime(t) : t \in BadTimes }
      \cup { WithLimit(l) : l \in BadLimits }

Configs == ValidConfigs \cup InvalidConfigs

\* a band whose msg_cooldown is None passes _validate_config
ConfigNullCooldown ==
    Args(Device, List(<<RecA, RecB>>),
         List(<<Low, Limit(Num(10), Num(20), Str("high"), None)>>))

(***************************************************************************)
(* State.                                                                  *)
(***************************************************************************)
VARIABLES
    args,                    \* self.args
    phase,                   \* "new", then how initialize() ended:
                             \* "inert" (returned early), "raised", "active"
    processed_recipients,    \* self.processed_recipients
    recipient_cooldowns,     \* self.recipient_cooldowns: name -> message -> time
    last_notification_time,  \* self.last_notification_time: name -> time
    registrations,           \* callbacks registered with run_in / run_daily
    startup_log,             \* calls of notify/<name> by _send_startup_messages
    clock,                   \* datetime.now()
    scan,                    \* what check_weather_forecast did, when it is
                             \* the callback that has just run; time passing
                             \* clears it, a cleanup keeps the failed sends
    host,                    \* the environment: the times at which the host
                             \* runs callbacks, the responses the forecast
                             \* service can give
    last_sent,               \* name -> time of the last band notification sent
    last_ok,                 \* <<name, message>> -> time of its last send
    wind                     \* the standalone WeatherWindAlarm app

vars == <<args, phase, processed_recipients, recipient_cooldowns,
          last_notification_time, registrations, startup_log, clock, scan,
          host, last_sent, last_ok, wind>>

AllNames == {"A", "B"}
Names(procs) == {procs[i].name : i \in 1..Len(procs)}

\* self.limits of a validated configuration
Limits(a) == a.limits.items

MessageKey(v) == IF v.k = "str" THEN v.s ELSE "None"

\* limit.get("message", "default") in _initialize_cooldowns
InitMessage(l) == MessageKey(Get(l.message, Str("default")))

\* triggered_limit.get('message', f'{self._get_weather_description()} warning')
LimitMessage(l) == MessageKey(Get(l.message, Str("Weather value warning")))

\* limit.get("msg_cooldown", 86400)
CooldownSeconds(l) == Get(l.msg_cooldown, Num(DEFAULT_COOLDOWN))

AllMessages == {"low", "high", "default", "Weather value warning", "None"}

(***************************************************************************)
(* _initialize_cooldowns: every (recipient, message) starts at             *)
(* now - cooldown; a later band with the same message overwrites an        *)
(* earlier one.  timedelta(seconds=None) raises TypeError.                 *)
(***************************************************************************)
initialize_cooldowns_raises(limits) ==
    \E i \in 1..Len(limits) : CooldownSeconds(limits[i]).k = "none"

\* a slip: the initial entries lie a default cooldown ahead of now
initialize_cooldowns_ahead(procs, limits, now) ==
    LET names == {procs[i].name : i \in 1..Len(procs)}
        msgs == {InitMessage(limits[i]) : i \in 1..Len(limits)}
    IN  [r \in names |-> [m \in msgs |-> now + DEFAULT_COOLDOWN]]

initialize_cooldowns(procs, limits, now) ==
    LET names == {procs[i].name : i \in 1..Len(procs)}
        msgs == {InitMessage(limits[i]) : i \in 1..Len(limits)}
        lastIdx(m) == CHOOSE i \in 1..Len(limits) :
                          /\ InitMessage(limits[i]) = m
                          /\ \A j \in 1..Len(limits) :
                                 InitMessage(limits[j]) = m => j <= i
    IN  [r \in names |-> [m \in msgs |-> now - CooldownSeconds(limits[lastIdx(m)]).n]]

(***************************************************************************)
(* _schedule_daily_checks: one run_daily per time_of_day string not seen   *)
(* before.                                                                 *)
(***************************************************************************)
Registration(cb, how, t) == [cb |-> cb, how |-> how, h |-> t[1], m |-> t[2]]

RECURSIVE schedule_daily_checks(_, _, _)
schedule_daily_checks(procs, i, scheduled_times) ==
    IF i > Len(procs) THEN <<>>
    ELSE LET t == procs[i].time_of_day
         IN  IF t.txt \notin scheduled_times
             THEN <<Registration("check_weather_forecast", "run_daily",
                                 <<t.parts[1].v, t.parts[2].v>>)>>
                  \o schedule_daily_checks(procs, i + 1, scheduled_times \cup {t.txt})
             ELSE schedule_daily_checks(procs, i + 1, scheduled_times)

(***************************************************************************)
(* _send_startup_messages: down is the set of recipients whose notify      *)
(* service raises; the exception is caught per recipient.                  *)
(***************************************************************************)
\* a slip: the exception of a failed send ends the loop
RECURSIVE send_startup_messages_uncaught(_, _, _)
send_startup_messages_uncaught(procs, i, down) ==
    IF i > Len(procs) THEN <<>>
    ELSE IF procs[i].startup_message /\ procs[i].name \in down
         THEN <<[name |-> procs[i].name, ok |-> FALSE]>>
         ELSE (IF procs[i].startup_message
               THEN <<[name |-> procs[i].name, ok |-> TRUE]>> ELSE <<>>)
              \o send_startup_messages_uncaught(procs, i + 1, down)

RECURSIVE send_startup_messages(_, _, _)
send_startup_messages(procs, i, down) ==
    IF i > Len(procs) THEN <<>>
    ELSE (IF procs[i].startup_message
          THEN <<[name |-> procs[i].name, ok |-> procs[i].name \notin down]>>
          ELSE <<>>)
         \o send_startup_messages(procs, i + 1, down)

(***************************************************************************)
(* Forecast responses of weather/get_forecasts.  A forecast record is a    *)
(* dict with or without the key 'datetime' and with the field the variant  *)
(* reads (precipitation / temperature).  A response is                     *)
(*   "none"     None                      "raise"  call_service raises     *)
(*   "num"      a bare number             "rec"    one record, items[1]    *)
(*   "list"     the list items            "emb"    {'forecast': items}     *)
(*   "listemb"  [{'forecast': items}]                                      *)
(***************************************************************************)
Rec(dt, field) == [k |-> "dict", datetime |-> dt, field |-> field]
Resp(k, items) == [k |-> k, items |-> items]

SeqsUpTo(S, n) == UNION {[1..k -> S] : k \in 0..n}
Forecast(values) == [i \in DOMAIN values |-> Rec(TRUE, Num(values[i]))]
Embedded(S) == {Resp("emb", Forecast(s)) : s \in S}

\* every shape of response: lists of records up to the bound, and single
\* records and short lists that have or lack 'datetime' and the field
ShapeRecs == {Rec(TRUE, Num(7)), Rec(TRUE, Num(10))}
OddRecs == {Rec(FALSE, Num(7)), Rec(TRUE, Absent), Rec(TRUE, Str("n/a"))}
AllShapes ==
    {Resp("none", <<>>), Resp("raise", <<>>), Resp("num", <<>>)}
    \cup {Resp(k, s) : k \in {"list", "listemb"}, s \in SeqsUpTo(ShapeRecs, MaxRecords)}
    \cup {Resp(k, <<r, Rec(TRUE, Num(7))>>) : k \in {"list", "emb"}, r \in OddRecs}
    \cup {Resp("emb", <<>>), Resp("emb", <<Rec(TRUE, Num(7)), Rec(TRUE, Num(10))>>)}
    \cup {Resp("rec", <<r>>) : r \in ShapeRecs \cup OddRecs \cup {Rec(TRUE, NumStr(7, "7.0"))}}

(***************************************************************************)
(* The worlds the model starts in: a configuration, the times at which     *)
(* the host runs callbacks, and the responses of the forecast service.     *)
(***************************************************************************)
World(a, times, responses) ==
    [args |-> a, times |-> times, responses |-> responses, sensor |-> {}]

\* a host that runs only the standalone wind alarm: the states its sensor
\* attribute wind_speed takes
WindStates == {None, Num(7), Num(15), NumStr(7, "7.0"), Str("unavailable")}
WindWorld ==
    [args |-> Args(Absent, NoList, NoList), times |-> {0},
     responses |-> {Resp("none", <<>>)}, sensor |-> WindStates]

Worlds ==
    { \* the scenario bands over an hour, several records per scan
      World(ConfigScenario, {0, 10, 3601},
            {Resp("none", <<>>)}
            \cup Embedded({<<7>>, <<10>>, <<20>>, <<7, 10>>})),
      \* the scenario bands over a week, with the daily cleanup
      World(ConfigScenario, {0, 10, 604801},
            Embedded({<<7>>, <<10>>})),
      \* one recipient, overlapping bands, several records per scan
      World(ConfigOverlap, {0, 10, 60},
            Embedded(SeqsUpTo({7, 10}, MaxRecords))),
      \* one recipient over a week, with the daily cleanup
      World(ConfigOverlap, {0, 604800, 604801},
            Embedded({<<7>>, <<1500>>})),
      \* values at and beyond the ends of the sane range
      World(ConfigExtremes, {0, 60},
            Embedded({<<MIN_WEATHER_VALUE - 1>>, <<MIN_WEATHER_VALUE>>,
                      <<MAX_WEATHER_VALUE>>, <<MAX_WEATHER_VALUE + 1>>, <<1500>>})),
      \* every shape of response
      World(ConfigOverlap, {0}, AllShapes) }
    \cup { World(a, {0}, {Resp("none", <<>>)})
           : a \in InvalidConfigs \cup {ConfigNullCooldown} }
    \cup { World(a, {0}, Embedded({<<7>>})) : a \in ScheduleConfigs }
    \cup { World(ConfigSameMessage, {0}, Embedded({<<7>>, <<10>>, <<20>>})) }
    \cup { WindWorld }

NoScan ==
    [done |-> FALSE, at |-> 0, resp |-> [k |-> "none", items |-> <<>>],
     data |-> <<>>, recs |-> <<>>, raised |-> FALSE, exc |-> "none",
     escaped |-> FALSE, rerun |-> FALSE,
     failed |-> {}, retried |-> {}]

\* the wind alarm before its initialize: lmts[i] is limit["lmts"], {} for
\* the initial datetime(1970, 1, 1); state is the sensor state last seen;
\* new, value, exc and sent tell what the last check_state was given, read,
\* raised and sent
NoWind ==
    [phase |-> "new", lmts |-> <<{}, {}>>, state |-> None, new |-> None,
     value |-> {}, exc |-> "none", sent |-> <<>>]

Init ==
    /\ \E w \in Worlds :
        /\ args = w.args
        /\ host = [times |-> w.times, responses |-> w.responses, sensor |-> w.sensor]
    /\ phase = "new"
    /\ processed_recipients = <<>>
    /\ recipient_cooldowns = <<>>
    /\ last_notification_time = <<>>
    /\ registrations = <<>>
    /\ startup_log = <<>>
    /\ clock = 0
    /\ scan = NoScan
    /\ last_sent = [r \in AllNames |-> {}]
    /\ last_ok = [k \in AllNames \X AllMessages |-> {}]
    /\ wind = NoWind

(***************************************************************************)
(* initialize()                                                            *)
(***************************************************************************)
InitializeInert ==
    /\ phase = "new"
    /\ validate_config(args) = "False"
    /\ phase' = "inert"
    /\ UNCHANGED <<wind, args, processed_recipients, recipient_cooldowns,
                   last_notification_time, registrations, startup_log, clock,
                   scan, host, last_sent, last_ok>>

InitializeRaises ==
    /\ phase = "new"
    /\ \/ validate_config(args) = "TypeError"
       \/ /\ validate_config(args) = "True"
          /\ initialize_cooldowns_raises(Limits(args))
    /\ phase' = "raised"
    /\ UNCHANGED <<wind, args, processed_recipients, recipient_cooldowns,
                   last_notification_time, registrations, startup_log, clock,
                   scan, host, last_sent, last_ok>>

InitializeActive ==
    /\ phase = "new"
    /\ validate_config(args) = "True"
    /\ ~initialize_cooldowns_raises(Limits(args))
    /\ \E down \in SUBSET Names(ProcessedRecipients(args)) :
        LET procs == ProcessedRecipients(args)
        IN  /\ processed_recipients' = procs
            /\ recipient_cooldowns' = initialize_cooldowns(procs, Limits(args), clock)
            /\ registrations' =
                   <<Registration("check_weather_forecast", "run_in", <<0, 0>>)>>
                   \o schedule_daily_checks(procs, 1, {})
                   \o <<Registration("cleanup_old_data", "run_daily", <<2, 0>>)>>
            /\ startup_log' = send_startup_messages(procs, 1, down)
    /\ phase' = "active"
    /\ UNCHANGED <<wind, args, last_notification_time, clock, scan, host, last_sent,
                   last_ok>>

Initialize == InitializeInert \/ InitializeRaises \/ InitializeActive

(***************************************************************************)
(* Cooldown store and rate limiter.                                        *)
(***************************************************************************)
\* dict.get(key) as an optional time
Lookup(d, key) == IF key \in DOMAIN d THEN {d[key]} ELSE {}

\* d[key] = v
SetKey(d, key, v) == [x \in DOMAIN d \cup {key} |-> IF x = key THEN v ELSE d[x]]

\* _should_send_notification: "True", "False", or "KeyError" when
\* self.recipient_cooldowns[recipient] raises
should_send_notification(cds, recipient, limit_message, cooldown_seconds, now) ==
    IF recipient \notin DOMAIN cds THEN "KeyError"
    ELSE LET last_message_time ==
                 IF limit_message \in DOMAIN cds[recipient]
                 THEN cds[recipient][limit_message]
                 ELSE now - cooldown_seconds
         IN  IF now - last_message_time >= cooldown_seconds THEN "True" ELSE "False"

\* a slip: the rate limiter always allows
check_rate_limit_off(last, recipient, now) == TRUE

\* _check_rate_limit

check_rate_limit(last, recipient, now) ==
    IF recipient \notin DOMAIN last THEN TRUE
    ELSE now - last[recipient] >= MIN_NOTIFICATION_INTERVAL

(***************************************************************************)
(* _send_notification.  st carries the two stores through the scan, with   *)
(* the record of what was done (steps) and whether an exception is         *)
(* propagating (raised).  One step is one iteration of the loop over       *)
(* self.processed_recipients.                                              *)
(***************************************************************************)
Step(st, r, band, msg, cd, rl, out, st1) ==
    [r |-> r, band |-> band, msg |-> msg, now |-> st.now, cd |-> cd, rl |-> rl,
     out |-> out,
     cd0 |-> IF r \in DOMAIN st.cds THEN Lookup(st.cds[r], msg) ELSE {},
     cd1 |-> IF r \in DOMAIN st1.cds THEN Lookup(st1.cds[r], msg) ELSE {},
     rl0 |-> Lookup(st.last, r), rl1 |-> Lookup(st1.last, r),
     same |-> st1.cds = st.cds /\ st1.last = st.last,
     prev |-> st.sent[r]]

Record(st, r, band, msg, cd, rl, out, st1) ==
    [st1 EXCEPT !.steps = Append(@, Step(st, r, band, msg, cd, rl, out, st1))]

\* a slip: the rate limiter is not told of the send
Sent_forgets_rate_limit(st, r, msg) ==
    [st EXCEPT !.cds = [@ EXCEPT ![r] = SetKey(@, msg, st.now)],
               !.sent = [@ EXCEPT ![r] = {st.now}],
               !.ok = [@ EXCEPT ![<<r, msg>>] = {st.now}]]

\* the two assignments after a notify call that returned
Sent(st, r, msg) ==
    [st EXCEPT !.cds = [@ EXCEPT ![r] = SetKey(@, msg, st.now)],
               !.last = SetKey(@, r, st.now),
               !.sent = [@ EXCEPT ![r] = {st.now}],
               !.ok = [@ EXCEPT ![<<r, msg>>] = {st.now}]]

\* a slip: the cooldown is recorded although the rate limiter blocked
send_step_records_blocked(st, r, band, msg, c, down) ==
    LET cd == should_send_notification(st.cds, r, msg, c, st.now)
    IN  CASE cd = "KeyError" ->
               Record(st, r, band, msg, cd, "skipped", "raised", [st EXCEPT !.raised = TRUE, !.exc = "KeyError"])
          [] cd = "False" ->
               Record(st, r, band, msg, cd, "skipped", "cooldown", st)
          [] cd = "True" /\ ~check_rate_limit(st.last, r, st.now) ->
               Record(st, r, band, msg, cd, "False", "ratelimit",
                      [st EXCEPT !.cds = [@ EXCEPT ![r] = SetKey(@, msg, st.now)]])
          [] cd = "True" /\ check_rate_limit(st.last, r, st.now) /\ r \in down ->
               Record(st, r, band, msg, cd, "True", "failed", st)
          [] OTHER ->
               Record(st, r, band, msg, cd, "True", "sent", Sent(st, r, msg))

send_step(st, r, band, msg, c, down) ==
    LET cd == should_send_notification(st.cds, r, msg, c, st.now)
    IN  CASE cd = "KeyError" ->
               Record(st, r, band, msg, cd, "skipped", "raised", [st EXCEPT !.raised = TRUE, !.exc = "KeyError"])
          [] cd = "False" ->
               Record(st, r, band, msg, cd, "skipped", "cooldown", st)
          [] cd = "True" /\ ~check_rate_limit(st.last, r, st.now) ->
               Record(st, r, band, msg, cd, "False", "ratelimit", st)
          [] cd = "True" /\ check_rate_limit(st.last, r, st.now) /\ r \in down ->
               Record(st, r, band, msg, cd, "True", "failed", st)
          [] OTHER ->
               Record(st, r, band, msg, cd, "True", "sent", Sent(st, r, msg))

RECURSIVE send_notification(_, _, _, _, _, _)
send_notification(st, procs, i, band, limit, down) ==
    IF i > Len(procs) \/ st.raised THEN st
    ELSE send_notification(
             send_step(st, procs[i].name, band, LimitMessage(limit),
                       CooldownSeconds(limit).n, down),
             procs, i + 1, band, limit, down)

(***************************************************************************)
(* _validate_weather_value and _check_weather_limit.                       *)
(***************************************************************************)
\* a slip: the upper end of the range is not checked
validate_weather_value_no_maximum(value) ==
    MIN_WEATHER_VALUE <= value

\* _validate_weather_value
validate_weather_value(value) ==
    MIN_WEATHER_VALUE <= value /\ value <= MAX_WEATHER_VALUE

\* a slip: the upper bound taken as inclusive
InBand_upper_inclusive(limit, value) ==
    /\ Get(limit.gt, Num(DEFAULT_LIMIT_GT)).n <= value
    /\ \/ Get(limit.lt, Inf).k = "inf"
       \/ value <= Get(limit.lt, Inf).n

\* gt <= weather_value < lt
InBand(limit, value) ==
    /\ Get(limit.gt, Num(DEFAULT_LIMIT_GT)).n <= value
    /\ \/ Get(limit.lt, Inf).k = "inf"
       \/ value < Get(limit.lt, Inf).n

\* the loop over self.limits from index i on; st.bands lists the bands
\* handed to _send_notification
RECURSIVE limit_loop(_, _, _, _, _, _)
limit_loop(st, procs, limits, i, value, down) ==
    IF i > Len(limits) THEN st
    ELSE IF InBand(limits[i], value)
         THEN send_notification([st EXCEPT !.bands = Append(@, i)],
                                procs, 1, i, limits[i], down)
         ELSE limit_loop(st, procs, limits, i + 1, value, down)

check_weather_limit(st, procs, limits, value, down) ==
    IF ~validate_weather_value(value) THEN st
    ELSE limit_loop(st, procs, limits, 1, value, down)

(***************************************************************************)
(* Reading the forecast.                                                   *)
(***************************************************************************)
\* _extract_weather_value of the rain and temperature variants
extract_weather_value(rec) ==
    IF rec.field.k \in {"num", "numstr"} THEN {rec.field.n} ELSE {}

\* _extract_forecast_data; ok = FALSE stands for the result None
extract_forecast_data(resp) ==
    CASE resp.k \in {"emb", "listemb"} -> [ok |-> TRUE, data |-> resp.items]
      [] resp.k = "rec" /\ resp.items[1].datetime -> [ok |-> TRUE, data |-> resp.items]
      [] resp.k = "list" /\ resp.items = <<>> -> [ok |-> TRUE, data |-> <<>>]
         \* response = response[0]; a dict with 'datetime' is returned alone,
         \* a dict without it is neither a forecast nor a list
      [] resp.k = "list" /\ resp.items # <<>> /\ resp.items[1].datetime ->
             [ok |-> TRUE, data |-> <<resp.items[1]>>]
      [] OTHER -> [ok |-> FALSE, data |-> <<>>]

\* _check_forecast_data: st.recs gets one entry per record the loop visits
RECURSIVE check_forecast_data(_, _, _, _, _, _)
check_forecast_data(st, procs, limits, data, i, down) ==
    IF i > Len(data) \/ st.raised THEN st
    ELSE LET v == IF data[i].k = "dict" THEN extract_weather_value(data[i]) ELSE {}
             st0 == [st EXCEPT !.steps = <<>>, !.bands = <<>>]
             st1 == IF v = {} THEN st0
                    ELSE check_weather_limit(st0, procs, limits,
                                             CHOOSE x \in v : TRUE, down)
         IN  check_forecast_data(
                 [st1 EXCEPT !.recs = Append(@, [rec |-> data[i], v |-> v,
                                                 bands |-> st1.bands,
                                                 steps |-> st1.steps])],
                 procs, limits, data, i + 1, down)

\* the try block of check_weather_forecast; st.exc is the exception that
\* leaves it ("none": it ran to its end or returned)
try_block(st, procs, limits, resp, down) ==
    IF resp.k = "raise" THEN [st EXCEPT !.exc = "Exception"]
    ELSE IF resp.k = "none" THEN st
    ELSE LET forecast_data == extract_forecast_data(resp)
         IN  IF ~forecast_data.ok THEN st
             ELSE check_forecast_data([st EXCEPT !.data = forecast_data.data],
                                      procs, limits, forecast_data.data, 1, down)

\* a slip: the catch-all clause is missing
except_clauses_no_catch_all(exc) ==
    IF exc \in {"ValueError", "TypeError"} THEN exc ELSE "none"

\* the except clauses of check_weather_forecast: the clause that catches
\* exc, "none" when no clause does
except_clauses(exc) ==
    CASE exc = "ValueError" -> "ValueError"
      [] exc = "TypeError" -> "TypeError"
      [] exc \in {"Exception", "KeyError"} -> "Exception"
      [] OTHER -> "none"

\* a slip: the handlers log and raise again
check_weather_forecast_reraises(st, procs, limits, resp, down) ==
    LET done == try_block(st, procs, limits, resp, down)
    IN  [done EXCEPT !.escaped = done.exc # "none"]

\* check_weather_forecast: the handlers only log
check_weather_forecast(st, procs, limits, resp, down) ==
    LET done == try_block(st, procs, limits, resp, down)
    IN  [done EXCEPT !.escaped = done.exc # "none" /\ except_clauses(done.exc) = "none"]

Registered(cb) == \E i \in 1..Len(registrations) : registrations[i].cb = cb

\* the <<recipient, message>> pairs whose send raised in the scan
FailedSends(recs) ==
    UNION { { <<recs[i].steps[j].r, recs[i].steps[j].msg>> :
                j \in {x \in 1..Len(recs[i].steps) : recs[i].steps[x].out = "failed"} }
            : i \in 1..Len(recs) }

(***************************************************************************)
(* The host runs the scan callback.                                        *)
(***************************************************************************)
Scan ==
    /\ Registered("check_weather_forecast")
    /\ \E resp \in host.responses, down \in SUBSET Names(processed_recipients) :
        LET st0 == [cds |-> recipient_cooldowns, last |-> last_notification_time,
                    sent |-> last_sent, ok |-> last_ok, now |-> clock,
                    steps |-> <<>>, bands |-> <<>>, recs |-> <<>>, data |-> <<>>,
                    raised |-> FALSE, exc |-> "none", escaped |-> FALSE]
        IN  \E st \in {check_weather_forecast(st0, processed_recipients,
                                                Limits(args), resp, down)} :
            /\ recipient_cooldowns' = st.cds
            /\ last_notification_time' = st.last
            /\ last_sent' = st.sent
            /\ last_ok' = st.ok
            /\ scan' = [done |-> TRUE, at |-> clock, resp |-> resp,
                        data |-> st.data, recs |-> st.recs, raised |-> st.raised,
                        exc |-> st.exc, escaped |-> st.escaped,
                        rerun |-> scan.done /\ scan.resp = resp,
                        failed |-> FailedSends(st.recs),
                        retried |-> scan.failed]
    /\ UNCHANGED <<wind, args, phase, processed_recipients, registrations, startup_log,
                   clock, host>>

(***************************************************************************)
(* _cleanup_old_data, run by the host.                                     *)
(***************************************************************************)
\* a slip: an entry of exactly the maximum age is removed too
cleanup_old_data_inclusive(cds, now) ==
    LET kept(r) == {m \in DOMAIN cds[r] : ~(now - cds[r][m] >= CLEANUP_MAX_AGE_SECONDS)}
    IN  [r \in {x \in DOMAIN cds : kept(x) # {}} |-> [m \in kept(r) |-> cds[r][m]]]

cleanup_old_data(cds, now) ==
    LET kept(r) == {m \in DOMAIN cds[r] : ~(now - cds[r][m] > CLEANUP_MAX_AGE_SECONDS)}
    IN  [r \in {x \in DOMAIN cds : kept(x) # {}} |-> [m \in kept(r) |-> cds[r][m]]]

Cleanup ==
    /\ Registered("cleanup_old_data")
    /\ recipient_cooldowns' = cleanup_old_data(recipient_cooldowns, clock)
    /\ scan' = [NoScan EXCEPT !.failed = scan.failed]
    /\ UNCHANGED <<wind, args, phase, processed_recipients, last_notification_time,
                   registrations, startup_log, clock, host, last_sent, last_ok>>

\* time passes between two callbacks
Tick ==
    /\ phase = "active"
    /\ \E t \in host.times : t > clock /\ clock' = t
    /\ scan' = NoScan
    /\ UNCHANGED <<wind, args, phase, processed_recipients, recipient_cooldowns,
                   last_notification_time, registrations, startup_log, host,
                   last_sent, last_ok>>

(***************************************************************************)
(* WeatherWindAlarm: two limits [0,10) and [10,20) with a cooldown of an   *)
(* hour, two recipients.                                                   *)
(***************************************************************************)
WindLimits == <<[gt |-> 0, lt |-> 10, msg_cooldown |-> 3600],
                [gt |-> 10, lt |-> 20, msg_cooldown |-> 3600]>>
WindRecipients == <<"A", "B">>

\* float(new): ValueError for a string that is no number
float(new) ==
    IF new.k \in {"num", "numstr"} THEN [exc |-> "none", value |-> {new.n}]
    ELSE [exc |-> "ValueError", value |-> {}]

\* the limit loop of check_state: the first limit that contains value, its
\* message only when the cooldown has passed
wind_limit(value) ==
    {i \in 1..Len(WindLimits) :
        /\ value < WindLimits[i].lt /\ value >= WindLimits[i].gt
        /\ \A j \in 1..(i - 1) :
               ~(value < WindLimits[j].lt /\ value >= WindLimits[j].gt)}

\* WeatherWindAlarm.check_state
check_state(w, new, now) ==
    IF new.k = "none"
    THEN [w EXCEPT !.new = new, !.value = {}, !.exc = "none", !.sent = <<>>]
    ELSE LET f == float(new)
             hit == IF f.value = {} THEN {}
                    ELSE {i \in wind_limit(CHOOSE x \in f.value : TRUE) :
                             \A t \in w.lmts[i] : now - t > WindLimits[i].msg_cooldown}
         IN  [w EXCEPT !.new = new, !.value = f.value, !.exc = f.exc,
                       !.lmts = [i \in DOMAIN @ |-> IF i \in hit THEN {now} ELSE @[i]],
                       !.sent = IF hit = {} THEN <<>> ELSE WindRecipients]

\* WeatherWindAlarm.initialize: the sensor is configured; check_state on
\* the sensor's current state, after listen_state
WindInitialize ==
    /\ wind.phase = "new"
    /\ \E new \in host.sensor :
        \E w \in {check_state([wind EXCEPT !.state = new], new, clock)} :
            wind' = [w EXCEPT !.phase = IF w.exc = "none" THEN "listening" ELSE "raised"]
    /\ UNCHANGED <<args, phase, processed_recipients, recipient_cooldowns,
                   last_notification_time, registrations, startup_log, clock,
                   scan, host, last_sent, last_ok>>

\* WeatherWindAlarm.state_change for the attribute wind_speed
WindStateChange ==
    /\ wind.phase = "listening"
    /\ \E new \in host.sensor :
        /\ new # wind.state /\ new.k # "none"
        /\ wind' = [check_state(wind, new, clock) EXCEPT !.state = new]
    /\ UNCHANGED <<args, phase, processed_recipients, recipient_cooldowns,
                   last_notification_time, registrations, startup_log, clock,
                   scan, host, last_sent, last_ok>>

Next == Initialize \/ Scan \/ Cleanup \/ Tick \/ WindInitialize \/ WindStateChange

Spec == Init /\ [][Next]_vars

(***************************************************************************)
(* A second specification: an instance whose scan runs for ever, one scan  *)
(* per period, with a notification service that never fails and a          *)
(* forecast in which the second band matches every time.  The code reads   *)
(* its stored times only in differences now - t, so after each scan the    *)
(* origin of time is moved to the time of that scan, and a stored time     *)
(* more than HorizonSeconds back is kept at the horizon: it is older than  *)
(* every cooldown of the configuration and than the rate limit interval.   *)
(* The prune tick is not part of this specification.                       *)
(***************************************************************************)
ShortCooldown == 120
HorizonSeconds == 240
ScanPeriods == {61, 90, ShortCooldown, 150, HorizonSeconds}

\* the scenario bands with a cooldown of two minutes
ConfigPeriodic ==
    Args(Device, List(<<RecA>>),
         List(<<Limit(Num(0), Num(10), Str("low"), Num(ShortCooldown)),
                Limit(Num(10), Num(20), Str("high"), Num(ShortCooldown))>>))

InitPeriodic ==
    /\ args = ConfigPeriodic
    /\ host = [times |-> {0}, responses |-> Embedded({<<10>>, <<7, 10>>}),
               sensor |-> {}]
    /\ phase = "new"
    /\ processed_recipients = <<>>
    /\ recipient_cooldowns = <<>>
    /\ last_notification_time = <<>>
    /\ registrations = <<>>
    /\ startup_log = <<>>
    /\ clock = 0
    /\ scan = NoScan
    /\ last_sent = [r \in AllNames |-> {}]
    /\ last_ok = [k \in AllNames \X AllMessages |-> {}]
    /\ wind = NoWind

Rebase(t, now) == IF t - now < -HorizonSeconds THEN -HorizonSeconds ELSE t - now

\* the scan callback, run by the host one period after the last scan (or
\* after startup)
PeriodicScan ==
    /\ Registered("check_weather_forecast")
    /\ \E period \in ScanPeriods, resp \in host.responses :
        LET now == clock + period
            st0 == [cds |-> recipient_cooldowns, last |-> last_notification_time,
                    sent |-> last_sent, ok |-> last_ok, now |-> now,
                    steps |-> <<>>, bands |-> <<>>, recs |-> <<>>, data |-> <<>>,
                    raised |-> FALSE, exc |-> "none", escaped |-> FALSE]
        IN  \E st \in {check_weather_forecast(st0, processed_recipients,
                                                Limits(args), resp, {})} :
            /\ recipient_cooldowns' =
                   [r \in DOMAIN st.cds |->
                       [m \in DOMAIN st.cds[r] |-> Rebase(st.cds[r][m], now)]]
            /\ last_notification_time' =
                   [r \in DOMAIN st.last |-> Rebase(st.last[r], now)]
            /\ last_sent' = [r \in AllNames |-> {Rebase(t, now) : t \in st.sent[r]}]
            /\ last_ok' = [k \in AllNames \X AllMessages |->
                              {Rebase(t, now) : t \in st.ok[k]}]
            /\ scan' = [done |-> TRUE, at |-> now, resp |-> resp,
                        data |-> st.data, recs |-> st.recs, raised |-> st.raised,
                        exc |-> st.exc, escaped |-> st.escaped,
                        rerun |-> FALSE, failed |-> FailedSends(st.recs),
                        retried |-> scan.failed]
    /\ UNCHANGED <<wind, args, phase, processed_recipients, registrations,
                   startup_log, clock, host>>

NextPeriodic == InitializeActive \/ PeriodicScan

SpecPeriodic ==
    InitPeriodic /\ [][NextPeriodic]_vars /\ WF_vars(NextPeriodic)

(***************************************************************************)
(* Vocabulary of the properties.  The two gates are restated from their    *)
(* contracts on the values the stores held before a step (cd0, rl0): a     *)
(* missing entry permits.                                                  *)
(***************************************************************************)
ScanSteps ==
    UNION { {scan.recs[i].steps[j] : j \in 1..Len(scan.recs[i].steps)}
            : i \in 1..Len(scan.recs) }

BandCooldown(b) == CooldownSeconds(Limits(args)[b]).n
CooldownPermits(s) == \A t \in s.cd0 : s.now - t >= BandCooldown(s.band)
RatePermits(s) == \A t \in s.rl0 : s.now - t >= MIN_NOTIFICATION_INTERVAL
Dispatched(s) == s.out \in {"sent", "failed"}

\* the entry of (r, m) in the cooldown store, of r in the rate limiter
CooldownEntry(r, m) ==
    IF r \in DOMAIN recipient_cooldowns THEN Lookup(recipient_cooldowns[r], m) ELSE {}
RateEntry(r) == Lookup(last_notification_time, r)

(***************************************************************************)
(* C1: for a record that matched band B, a notification is dispatched to   *)
(* recipient R if and only if the cooldown check for (R, B.message) and    *)
(* the rate-limit check for R both permit; a dispatch that succeeds sets   *)
(* both entries to the scan's current time; in every other case R gets     *)
(* nothing.  A recipient the loop did not reach got nothing, so its        *)
(* checks must not both permit.                                            *)
(***************************************************************************)
C1_DispatchIffPermitted ==
    scan.done =>
      \A i \in 1..Len(scan.recs) : \A k \in 1..Len(scan.recs[i].bands) :
        \A j \in 1..Len(processed_recipients) :
          LET b == scan.recs[i].bands[k]
              steps == scan.recs[i].steps
              r == processed_recipients[j].name
              m == LimitMessage(Limits(args)[b])
          IN  IF j <= Len(steps)
              THEN /\ steps[j].r = r /\ steps[j].now = scan.at
                   /\ Dispatched(steps[j])
                        <=> (CooldownPermits(steps[j]) /\ RatePermits(steps[j]))
                   /\ steps[j].out = "sent"
                        => steps[j].cd1 = {scan.at} /\ steps[j].rl1 = {scan.at}
              ELSE ~ /\ \A t \in CooldownEntry(r, m) : scan.at - t >= BandCooldown(b)
                     /\ \A t \in RateEntry(r) : scan.at - t >= MIN_NOTIFICATION_INTERVAL

(***************************************************************************)
(* C2: after a successful send for (R, M) at time T, and no later one,     *)
(* _should_send_notification(R, M, cooldown, T') is false while            *)
(* T' - T < cooldown and true from T' - T >= cooldown on, whatever         *)
(* happened in between.  last_ok holds T; the check is evaluated at the    *)
(* current time in every reachable state.                                  *)
(***************************************************************************)
C2_CooldownAfterSend ==
    phase = "active" =>
      \A j \in 1..Len(processed_recipients) : \A b \in 1..Len(Limits(args)) :
        LET r == processed_recipients[j].name
            m == LimitMessage(Limits(args)[b])
        IN  \A T \in last_ok[<<r, m>>] :
              should_send_notification(recipient_cooldowns, r, m, BandCooldown(b), clock)
                = IF clock - T >= BandCooldown(b) THEN "True" ELSE "False"

(***************************************************************************)
(* C3: two band notifications sent to the same recipient are at least      *)
(* MIN_NOTIFICATION_INTERVAL seconds apart, whichever bands triggered      *)
(* them.  Each sent step carries in prev the time of the notification      *)
(* sent to that recipient before it.                                       *)
(***************************************************************************)
C3_SendsSpaced ==
    \A s \in ScanSteps :
        s.out = "sent" => \A t \in s.prev : s.now - t >= MIN_NOTIFICATION_INTERVAL

\* one scan with two records in different bands: the first band reached a
\* recipient, the second was held back for it by the rate limiter
C3_Witness ==
    /\ scan.done /\ Len(scan.recs) = 2
    /\ scan.recs[1].bands # scan.recs[2].bands
    /\ \E s1 \in 1..Len(scan.recs[1].steps), s2 \in 1..Len(scan.recs[2].steps) :
        /\ scan.recs[1].steps[s1].out = "sent"
        /\ scan.recs[2].steps[s2].out = "ratelimit"
        /\ scan.recs[2].steps[s2].r = scan.recs[1].steps[s1].r

(***************************************************************************)
(* C4: for an in-range value v exactly the first band in table order with  *)
(* lower_bound <= v < upper_bound is handed to dispatch, and no other      *)
(* band, also when the bands overlap and when every recipient is           *)
(* suppressed; when no band matches nothing is dispatched.                 *)
(***************************************************************************)
LowerBound(l) == IF l.gt.k = "absent" THEN 0 ELSE l.gt.n
BelowUpper(l, v) == l.lt.k = "absent" \/ v < l.lt.n
Matching(v) ==
    {b \in 1..Len(Limits(args)) :
        LowerBound(Limits(args)[b]) <= v /\ BelowUpper(Limits(args)[b], v)}
FirstMatching(v) == CHOOSE b \in Matching(v) : \A c \in Matching(v) : b <= c

C4_FirstMatchWins ==
    \A i \in 1..Len(scan.recs) : \A v \in scan.recs[i].v :
        (MIN_WEATHER_VALUE <= v /\ v <= MAX_WEATHER_VALUE) =>
            IF Matching(v) = {}
            THEN scan.recs[i].bands = <<>> /\ scan.recs[i].steps = <<>>
            ELSE /\ scan.recs[i].bands = <<FirstMatching(v)>>
                 /\ \A j \in 1..Len(scan.recs[i].steps) :
                        scan.recs[i].steps[j].band = FirstMatching(v)

\* a value in two overlapping bands: the first was selected, every
\* recipient was suppressed, and the second band was not tried
C4_Witness ==
    \E i \in 1..Len(scan.recs) : \E v \in scan.recs[i].v :
        /\ Cardinality(Matching(v)) = 2
        /\ scan.recs[i].bands = <<1>>
        /\ Len(scan.recs[i].steps) = Len(processed_recipients)
        /\ \A j \in 1..Len(scan.recs[i].steps) : ~Dispatched(scan.recs[i].steps[j])

C6_InvalidConfigInert ==
    (phase # "new" /\ validate_config(args) # "True") =>
        /\ phase = "inert"
        /\ registrations = <<>>
        /\ startup_log = <<>>
        /\ ~scan.done
        /\ last_notification_time = <<>>

(***************************************************************************)
(* C7: _validate_config returns False for a configuration that is valid    *)
(* in every other respect when some band has lower_bound >= upper_bound,   *)
(* some band has a non-numeric bound, some recipient has neither           *)
(* notification_target nor name, some recipient's time_of_day is not       *)
(* HH:MM with hour in [0,23] and minute in [0,59], the band list is        *)
(* empty, the recipient list is empty, or a band's cooldown is             *)
(* non-numeric or negative.  The defects are read off the raw              *)
(* configuration.                                                          *)
(***************************************************************************)
Numeric(v) == v.k \in {"num", "inf"}
BandDefect(l) ==
    LET lower == IF l.gt.k = "absent" THEN Num(0) ELSE l.gt
        upper == IF l.lt.k = "absent" THEN Inf ELSE l.lt
    IN  \/ ~Numeric(lower) \/ ~Numeric(upper)
        \/ /\ Numeric(lower) /\ Numeric(upper)
           /\ \/ lower.k = "inf"
              \/ upper.k = "num" /\ lower.n >= upper.n
        \/ /\ l.msg_cooldown.k # "absent"
           /\ ~Numeric(l.msg_cooldown) \/ l.msg_cooldown.n < 0
TimeDefect(t) ==
    /\ t.k # "absent"
    /\ ~ /\ t.k = "str" /\ Len(t.parts) = 2
         /\ \A i \in 1..2 : t.parts[i].isint
         /\ t.parts[1].v \in 0..23 /\ t.parts[2].v \in 0..59
RecipientDefect(r) ==
    \/ r.notification_target.k = "absent" /\ r.name.k = "absent"
    \/ TimeDefect(r.time_of_day)
HasDefect(a) ==
    /\ a.recipients.k = "list" /\ a.limits.k = "list"
    /\ \A i \in 1..Len(a.recipients.items) : a.recipients.items[i].k = "dict"
    /\ \A i \in 1..Len(a.limits.items) : a.limits.items[i].k = "dict"
    /\ \/ a.recipients.items = <<>>
       \/ a.limits.items = <<>>
       \/ \E i \in 1..Len(a.recipients.items) : RecipientDefect(a.recipients.items[i])
       \/ \E i \in 1..Len(a.limits.items) : BandDefect(a.limits.items[i])

C7_DefectsRejected ==
    (phase # "new" /\ HasDefect(args)) => phase = "inert"

(***************************************************************************)
(* C8: a notification service failure for recipient R is contained to R:   *)
(* the cooldown entry of (R, band message) and the rate-limit entry of R   *)
(* are unchanged, the dispatch goes on to every remaining recipient, and   *)
(* the next scan in which the band matches attempts the send to R again    *)
(* (scan.retried: the sends that failed in the scan just before this one)  *)
(* unless a gate holds it back for a send that did succeed.                *)
(***************************************************************************)
C8_SendFailureContained ==
    /\ \A s \in ScanSteps :
          s.out = "failed" => s.cd1 = s.cd0 /\ s.rl1 = s.rl0 /\ s.same
    /\ \A i \in 1..Len(scan.recs) :
          (\E j \in 1..Len(scan.recs[i].steps) : scan.recs[i].steps[j].out = "failed")
              => Len(scan.recs[i].steps) = Len(processed_recipients)
    /\ \A p \in scan.retried : \A i \in 1..Len(scan.recs) :
          (\E k \in 1..Len(scan.recs[i].bands) :
                LimitMessage(Limits(args)[scan.recs[i].bands[k]]) = p[2])
              => \E j \in 1..Len(scan.recs[i].steps) :
                    LET s == scan.recs[i].steps[j]
                    IN  /\ s.r = p[1]
                        /\ (CooldownPermits(s) /\ RatePermits(s)) => Dispatched(s)

(***************************************************************************)
(* C9: when the cooldown check permits a send for (R, band message) but    *)
(* the rate limiter blocks it, nothing is sent to R and both the cooldown  *)
(* entry of (R, band message) and the rate-limit entry of R are left as    *)
(* they were.                                                              *)
(***************************************************************************)
C9_RateLimitBlockLeavesStores ==
    \A s \in ScanSteps :
        (CooldownPermits(s) /\ ~RatePermits(s)) =>
            /\ ~Dispatched(s)
            /\ s.cd1 = s.cd0 /\ s.rl1 = s.rl0 /\ s.same

\* a step whose cooldown had elapsed (an entry older than the band's
\* cooldown) and that the rate limiter held back
C9_Witness ==
    \E s \in ScanSteps :
        /\ s.out = "ratelimit" /\ s.cd0 # {} /\ s.rl0 # {}
        /\ CooldownPermits(s) /\ ~RatePermits(s)
        /\ s.cd1 = s.cd0 /\ s.rl1 = s.rl0

(***************************************************************************)
(* C10: forecast normalization accepts a single record, a list of records  *)
(* and a record embedding a forecast list, and yields the one record, the  *)
(* N records in arrival order, the embedded list; the scan loop then       *)
(* evaluates every yielded record in that order.  Stated for records that  *)
(* carry a datetime and for scans not cut short by an exception in         *)
(* dispatch.                                                               *)
(***************************************************************************)
C10_NormalizationKeepsRecords ==
    (/\ scan.done /\ ~scan.raised /\ scan.resp.k \in {"rec", "list", "emb"}
     /\ \A i \in 1..Len(scan.resp.items) : scan.resp.items[i].datetime) =>
        /\ scan.data = scan.resp.items
        /\ Len(scan.recs) = Len(scan.resp.items)
        /\ \A i \in 1..Len(scan.recs) : scan.recs[i].rec = scan.resp.items[i]

(***************************************************************************)
(* C11: a scan whose forecast fetch returns None, raises, or returns an    *)
(* unrecognized shape (a bare number) sends no notification, leaves the    *)
(* cooldown store and the rate limiter unchanged, lets no exception reach  *)
(* the scheduler, and leaves the registrations alone, so that the next     *)
(* scheduled scan runs as it would have.  A step that ends with scan.done  *)
(* is a run of the scan callback.                                          *)
(***************************************************************************)
NoData(resp) == resp.k \in {"none", "raise", "num"}

C11_NoDataScan ==
    [][(scan'.done /\ NoData(scan'.resp)) =>
          /\ scan'.recs = <<>> /\ scan'.failed = {}
          /\ recipient_cooldowns' = recipient_cooldowns
          /\ last_notification_time' = last_notification_time
          /\ last_sent' = last_sent
          /\ ~scan'.escaped
          /\ registrations' = registrations /\ phase' = phase]_vars

\* a no-data scan of each kind, in a state where the stores hold a send
C11_Witness ==
    /\ scan.done /\ scan.resp.k = "num"
    /\ last_notification_time # <<>> /\ \E r \in AllNames : last_sent[r] # {}
    /\ ~scan.escaped /\ scan.recs = <<>>

(***************************************************************************)
(* C12: a record whose value lies outside [MIN_WEATHER_VALUE,              *)
(* MAX_WEATHER_VALUE] is skipped before any band is compared: no band is   *)
(* matched and nobody is notified, even when a band's range contains the   *)
(* value, and a scan of only such records changes no store; a value        *)
(* inside the range, its ends included, goes on to band matching, so a     *)
(* band that contains it is handed to dispatch.                            *)
(***************************************************************************)
Sane(v) == MIN_WEATHER_VALUE <= v /\ v <= MAX_WEATHER_VALUE

C12_SaneRange ==
    [][scan'.done =>
          /\ \A i \in 1..Len(scan'.recs) : \A v \in scan'.recs[i].v :
                /\ ~Sane(v) => scan'.recs[i].bands = <<>> /\ scan'.recs[i].steps = <<>>
                /\ (Sane(v) /\ Matching(v) # {}) => scan'.recs[i].bands # <<>>
          /\ (\A i \in 1..Len(scan'.recs) : \A v \in scan'.recs[i].v : ~Sane(v))
                => /\ recipient_cooldowns' = recipient_cooldowns
                   /\ last_notification_time' = last_notification_time]_vars

\* a value above the range and inside a band, skipped
C12_Witness ==
    /\ scan.done /\ Len(scan.recs) = 1
    /\ \E v \in scan.recs[1].v : v = MAX_WEATHER_VALUE + 1 /\ Matching(v) # {}
    /\ scan.recs[1].bands = <<>>

\* the two ends of the range, each matched by a band and dispatched
C12_WitnessEnds ==
    /\ scan.done /\ Len(scan.recs) = 1
    /\ \E v \in scan.recs[1].v : v \in {MIN_WEATHER_VALUE, MAX_WEATHER_VALUE}
    /\ scan.recs[1].bands # <<>>
    /\ \E j \in 1..Len(scan.recs[1].steps) : scan.recs[1].steps[j].out = "sent"

(***************************************************************************)
(* C13: after a successful initialization the number of daily scan         *)
(* registrations equals the number of distinct times of day (hour,         *)
(* minute) configured across the recipients, also when one time is         *)
(* written in two accepted spellings.                                      *)
(***************************************************************************)
DailyScans ==
    {i \in 1..Len(registrations) :
        /\ registrations[i].cb = "check_weather_forecast"
        /\ registrations[i].how = "run_daily"}
TimesOfDay ==
    {<<processed_recipients[i].time_of_day.parts[1].v,
       processed_recipients[i].time_of_day.parts[2].v>>
        : i \in 1..Len(processed_recipients)}

C13_OneRegistrationPerTime ==
    phase = "active" => Cardinality(DailyScans) = Cardinality(TimesOfDay)

\* the same, for recipient lists that write each time in one spelling only
SpellingsOfTimes ==
    {processed_recipients[i].time_of_day.txt : i \in 1..Len(processed_recipients)}
C13_OneSpellingEach ==
    (phase = "active" /\ Cardinality(SpellingsOfTimes) = Cardinality(TimesOfDay))
        => Cardinality(DailyScans) = Cardinality(TimesOfDay)

(***************************************************************************)
(* C14: the cooldown check treats a missing entry as elapsed: whenever     *)
(* the cooldown store holds no entry for (R, band message), also after     *)
(* the prune has removed the entry or recipient R altogether,              *)
(* _should_send_notification returns True, and a scan that matches the     *)
(* band reaches R and dispatches to R if the rate limiter permits.         *)
(***************************************************************************)
C14_MissingEntryElapsed ==
    phase = "active" =>
      /\ \A j \in 1..Len(processed_recipients) : \A b \in 1..Len(Limits(args)) :
            LET r == processed_recipients[j].name
                m == LimitMessage(Limits(args)[b])
            IN  CooldownEntry(r, m) = {} =>
                    should_send_notification(recipient_cooldowns, r, m,
                                             BandCooldown(b), clock) = "True"
      /\ \A i \in 1..Len(scan.recs) :
            scan.recs[i].bands # <<>> =>
              /\ Len(scan.recs[i].steps) = Len(processed_recipients)
              /\ \A j \in 1..Len(scan.recs[i].steps) :
                    LET s == scan.recs[i].steps[j]
                    IN  (s.cd0 = {} /\ RatePermits(s)) => Dispatched(s)

\* the same while the prune has removed no recipient: a missing entry of a
\* recipient that is still in the store counts as elapsed
C14_MissingEntryOfKnownRecipient ==
    phase = "active" =>
      \A j \in 1..Len(processed_recipients) : \A b \in 1..Len(Limits(args)) :
            LET r == processed_recipients[j].name
                m == LimitMessage(Limits(args)[b])
            IN  (r \in DOMAIN recipient_cooldowns /\ CooldownEntry(r, m) = {}) =>
                    should_send_notification(recipient_cooldowns, r, m,
                                             BandCooldown(b), clock) = "True"

(***************************************************************************)
(* C15: check_weather_forecast never lets an exception reach the           *)
(* scheduler, whatever the forecast service returns or raises, whatever    *)
(* the notification service raises and whatever the cooldown store         *)
(* holds; after a scan abandoned on an unexpected error the instance is    *)
(* still active with its scan callback registered.                         *)
(***************************************************************************)
C15_NothingEscapes ==
    scan.done =>
        /\ ~scan.escaped
        /\ phase = "active"
        /\ Registered("check_weather_forecast")

\* a scan abandoned on an exception raised in dispatch
C15_Witness ==
    /\ scan.done /\ scan.exc = "KeyError" /\ scan.raised
    /\ ~scan.escaped /\ Registered("check_weather_forecast")

(***************************************************************************)
(* C16: the extractor of every variant returns the numeric value of its    *)
(* field, or nothing when the field is missing or cannot be coerced to a   *)
(* number, and never raises; a record with an absent value is skipped by   *)
(* the scan without a notification.  For the rain and temperature          *)
(* variants the records of the scan show it, for the wind variant the      *)
(* last check_state of a sensor state.                                     *)
(***************************************************************************)
Coerced(field) == IF field.k \in {"num", "numstr"} THEN {field.n} ELSE {}

C16_ForecastRecords ==
    \A i \in 1..Len(scan.recs) :
        /\ scan.recs[i].v = Coerced(scan.recs[i].rec.field)
        /\ scan.recs[i].v = {} =>
              scan.recs[i].bands = <<>> /\ scan.recs[i].steps = <<>>

C16_ExtractorNeverRaises ==
    /\ C16_ForecastRecords
    /\ wind.exc = "none"
    /\ wind.value = Coerced(wind.new)
    /\ wind.value = {} => wind.sent = <<>>

(***************************************************************************)
(* C17: at startup with a valid configuration exactly one 'now active'     *)
(* message is attempted for each recipient whose startup flag is true      *)
(* (the default) and none for a recipient whose flag is false, whether or  *)
(* not a send to another recipient failed; the startup messages leave the  *)
(* rate limiter and the cooldown store alone: the rate limiter holds       *)
(* exactly the band notifications sent, and a send that is blocked is      *)
(* blocked by an earlier band notification or by the initial cooldown.     *)
(***************************************************************************)
StartupFlag(r) == r.startup_message.k = "absent" \/ r.startup_message.b
StartupAttempts(name) ==
    {i \in 1..Len(startup_log) : startup_log[i].name = name}
ConfiguredRecipients == RecipientItems(args.recipients)

C17_StartupMessages ==
    phase = "active" =>
      /\ \A j \in 1..Len(ConfiguredRecipients) :
            Cardinality(StartupAttempts(processed_recipients[j].name))
                = IF StartupFlag(ConfiguredRecipients[j]) THEN 1 ELSE 0
      /\ \A r \in AllNames : RateEntry(r) = last_sent[r]
      /\ \A s \in ScanSteps : s.out = "ratelimit" => s.prev # {}

\* the startup send to the first recipient failed, the second got its
\* message, and the first scan notified both
C17_Witness ==
    /\ startup_log = <<[name |-> "A", ok |-> FALSE], [name |-> "B", ok |-> TRUE]>>
    /\ scan.done /\ Len(scan.recs) = 1 /\ Len(scan.recs[1].steps) = 2
    /\ \A j \in 1..2 : scan.recs[1].steps[j].out = "sent"

(***************************************************************************)
(* C18: before any notification has been sent to recipient R the cooldown  *)
(* of every band counts as elapsed for R: in the first scan after startup  *)
(* (a scan at the time of startup) the first record that matches a band    *)
(* reaches every recipient and is dispatched to each recipient that has    *)
(* had no notification yet, also when two bands share a message text with  *)
(* different cooldowns and when a band has no message text.                *)
(***************************************************************************)
C18_InitiallyElapsed ==
    (scan.done /\ scan.at = 0) =>
        \A i \in 1..Len(scan.recs) :
            (/\ scan.recs[i].bands # <<>>
             /\ \A k \in 1..(i - 1) : scan.recs[k].bands = <<>>) =>
                /\ Len(scan.recs[i].steps) = Len(processed_recipients)
                /\ \A j \in 1..Len(scan.recs[i].steps) :
                      scan.recs[i].steps[j].prev = {}
                          => Dispatched(scan.recs[i].steps[j])

\* the same for band tables in which no two bands share a message text
DistinctMessages ==
    \A b, c \in 1..Len(Limits(args)) :
        b # c => InitMessage(Limits(args)[b]) # InitMessage(Limits(args)[c])
C18_DistinctMessagesElapsed ==
    (phase = "active" /\ DistinctMessages) => C18_InitiallyElapsed

(***************************************************************************)
(* C19: the prune tick _cleanup_old_data removes exactly the cooldown      *)
(* entries whose time is more than 7 days before now, keeps every entry    *)
(* that is at most 7 days old with its time, removes a recipient from the  *)
(* store exactly when no entry of it is left, and changes neither the      *)
(* rate limiter nor the registrations, and sends nothing.  A step of an    *)
(* active instance that leaves the clock alone and does not end in a scan  *)
(* is a run of the prune.                                                  *)
(***************************************************************************)
Entry(cds, r, m) == IF r \in DOMAIN cds THEN Lookup(cds[r], m) ELSE {}
Young(t) == clock - t <= CLEANUP_MAX_AGE_SECONDS

C19_PruneExact ==
    [][(phase = "active" /\ phase' = "active" /\ clock' = clock /\ ~scan'.done) =>
          /\ \A r \in AllNames : \A m \in AllMessages :
                Entry(recipient_cooldowns', r, m)
                    = {t \in Entry(recipient_cooldowns, r, m) : Young(t)}
          /\ DOMAIN recipient_cooldowns'
                = {r \in DOMAIN recipient_cooldowns :
                      \E m \in DOMAIN recipient_cooldowns[r] :
                          Young(recipient_cooldowns[r][m])}
          /\ last_notification_time' = last_notification_time
          /\ registrations' = registrations
          /\ startup_log' = startup_log
          /\ last_sent' = last_sent /\ last_ok' = last_ok]_vars

\* after a prune at exactly 7 days: the entry of that age is kept, the
\* older one is gone, the recipient stays
C19_Witness ==
    /\ clock = CLEANUP_MAX_AGE_SECONDS /\ ~scan.done
    /\ recipient_cooldowns = [r \in {"A"} |-> [m \in {"low"} |-> 0]]
    /\ last_ok[<<"A", "low">>] = {}

(***************************************************************************)
(* C20: a send blocked by the rate limiter is eventually delivered: when   *)
(* the second band matches for recipient R in a scan and only the rate     *)
(* limiter holds it back, and the band matches in every later scan, the    *)
(* scans are more than MIN_NOTIFICATION_INTERVAL apart and the             *)
(* notification service succeeds, R eventually gets that band's            *)
(* notification, also when an earlier record of each scan matches the      *)
(* first band and that band's cooldown is not longer than the scan         *)
(* period.                                                                 *)
(***************************************************************************)
HeldBack(r, b) ==
    \E s \in ScanSteps :
        s.r = r /\ s.band = b /\ s.out = "ratelimit" /\ CooldownPermits(s)
Delivered(r, b) ==
    \E s \in ScanSteps : s.r = r /\ s.band = b /\ s.out = "sent"

C20_BlockedSendDelivered ==
    \A r \in AllNames : HeldBack(r, 2) ~> Delivered(r, 2)

(***************************************************************************)
(* C21: in every state of a validated instance whose clock never goes      *)
(* back, for every recipient R that has a rate-limit entry no cooldown     *)
(* entry of R is later than that entry; right after a successful send for  *)
(* (R, M) the cooldown entry of (R, M) equals the rate-limit entry of R;   *)
(* and a recipient without a rate-limit entry has never been sent a band   *)
(* notification.                                                           *)
(***************************************************************************)
CooldownsNotAfterRate ==
    \A r \in AllNames : \A t \in RateEntry(r) :
        \A m \in AllMessages : \A c \in CooldownEntry(r, m) : c <= t

SendSetsBothEntries ==
    \A s \in ScanSteps :
        s.out = "sent" => s.cd1 = {s.now} /\ s.rl1 = {s.now}

NoRateEntryNeverSent ==
    \A r \in AllNames :
        RateEntry(r) = {} =>
            last_sent[r] = {} /\ \A m \in AllMessages : last_ok[<<r, m>>] = {}

C21_CooldownsBehindRateEntry ==
    phase = "active" =>
        CooldownsNotAfterRate /\ SendSetsBothEntries /\ NoRateEntryNeverSent

\* a scan that sent to one recipient, who keeps an older cooldown entry of
\* another message, while another recipient has no rate-limit entry
C21_Witness ==
    /\ phase = "active"
    /\ clock > 0
    /\ \E s \in ScanSteps :
           /\ s.out = "sent"
           /\ RateEntry(s.r) = {s.now}
           /\ CooldownEntry(s.r, s.msg) = {s.now}
           /\ \E m \in AllMessages : \E c \in CooldownEntry(s.r, m) : c < s.now
    /\ \E r \in Names(processed_recipients) : RateEntry(r) = {}

=============================================================================
